---- MODULE Spec2Model ----
(***************************************************************************)
(* Model of the Claude API route, src/app/api/(apps)/claude/route.ts.      *)
(*                                                                         *)
(* POST is an async function: every `await` is a point where the handler   *)
(* is suspended and other requests may run; the synchronous code between   *)
(* two awaits runs without interleaving.  Each action below is therefore   *)
(* "the awaited call settles, and the handler runs up to its next await    *)
(* (or to its return)".  The awaited calls (authMiddleware, request.json,  *)
(* import(), invoke, uploadToSupabase, reduceUserCredits) live outside the *)
(* route; each one either resolves or rejects, chosen nondeterministically.*)
(***************************************************************************)
EXTENDS Integers, Sequences, FiniteSets, TLC

\* ------------------------------------------------------------------ bounds
NumRequests == 2
InitialCredits == 4

Requests == 1..NumRequests

\* ------------------------------------------------------ inputs of the route
Emails == {"a@x.io", "b@x.io"}

\* Tool directories that exist under @/app, with the fields of toolConfig the
\* route reads.  paywall is a JavaScript value: the boolean true, the boolean
\* false, or a truthy value that is not the boolean true.
ToolConfigs ==
  [p \in {"(apps)/claude", "(apps)/gpt", "(apps)/grok"} |->
     CASE p = "(apps)/claude" ->
            [toolPath |-> "claude", aiModel |-> "claude-3", paywall |-> "true", credits |-> 2]
       [] p = "(apps)/gpt" ->
            [toolPath |-> "gpt", aiModel |-> "claude-3", paywall |-> "false", credits |-> 1]
       [] p = "(apps)/grok" ->
            [toolPath |-> "grok", aiModel |-> "claude-3", paywall |-> "truthy", credits |-> 1]]

NoConfig == [toolPath |-> "", aiModel |-> "", paywall |-> "false", credits |-> 0]

\* decodeURIComponent on the toolPath values the model sends.  "URIError" is
\* the exception thrown for a malformed escape sequence.
decodeURIComponent(s) ==
  CASE s = "%28apps%29%2Fclaude" -> "(apps)/claude"
    [] s = "(apps)/gpt"          -> "(apps)/gpt"
    [] s = "%28apps%29/grok"     -> "(apps)/grok"
    [] s = "(apps)%2Fnone"       -> "(apps)/none"
    [] s = "%E0%A4%A"            -> "URIError"

Bodies ==
  { [toolPath |-> "%28apps%29%2Fclaude", email |-> "a@x.io"],
    [toolPath |-> "%28apps%29%2Fclaude", email |-> "b@x.io"],
    [toolPath |-> "(apps)/gpt",          email |-> "a@x.io"],
    [toolPath |-> "%28apps%29/grok",     email |-> "b@x.io"],
    [toolPath |-> "(apps)%2Fnone",       email |-> "a@x.io"],
    [toolPath |-> "%E0%A4%A",            email |-> "b@x.io"] }

NoBody == [toolPath |-> "", email |-> ""]

\* Values a rejected call throws: an Error carrying a message, or a value
\* that is not an Error.
Thrown == { [isError |-> TRUE, message |-> "failed"],
            [isError |-> FALSE, message |-> ""] }

NoError == [isError |-> FALSE, message |-> "none"]

\* ---------------------------------------------------------------- responses
NoResponse == [status |-> 0, origin |-> "", slug |-> 0, body |-> "", message |-> ""]

\* What authMiddleware resolves to: a response of its own making.
AuthResponses ==
  { [status |-> s, origin |-> "authMiddleware", slug |-> 0, body |-> "", message |-> ""] :
      s \in {200, 401} }

\* Variant of ErrorMessage: the instanceof test is missing (a value that is
\* not an Error has no message).
ErrorMessageUnchecked(error) == error.message

\* route.ts 86-87
ErrorMessage(error) ==
  IF error.isError THEN error.message ELSE "An unknown error occurred"

\* route.ts 83-90
ErrorResponse(error) ==
  [status |-> 500, origin |-> "POST", slug |-> 0, body |-> "Error",
   message |-> ErrorMessage(error)]

\* route.ts 75-80
OkResponse(slug) ==
  [status |-> 200, origin |-> "POST", slug |-> slug, body |-> "slug", message |-> ""]

\* Variant of PaywallOn: a truthiness test, if (toolConfig.paywall).
PaywallOnTruthy(toolConfig) == toolConfig.paywall # "false"

\* route.ts 71: toolConfig.paywall === true
PaywallOn(toolConfig) == toolConfig.paywall = "true"

\* -------------------------------------------------------------------- state
VARIABLES
  pc,          \* per request: the await the handler is suspended at
  authResponse,\* per request: what authMiddleware resolved to
  requestBody, \* per request: the parsed JSON body
  toolConfig,  \* per request: the imported toolConfig
  supabaseResponse, \* per request: the rows uploadToSupabase resolved to
  response,    \* per request: what POST resolved to
  escaped,     \* per request: POST rejected (an exception left the handler)
  log,         \* per request: the external steps started, in order
  done,        \* per request: the steps that completed successfully
  failedAt,    \* per request: the step whose failure ended the request
  caught,      \* per request: the value the catch clause received
  db,          \* the generations table
  credits,     \* the credit balance of each user
  calls        \* how often each external service has been called

vars == <<pc, authResponse, requestBody, toolConfig, supabaseResponse, response,
          escaped, log, done, failedAt, caught, db, credits, calls>>

local == <<authResponse, requestBody, toolConfig, supabaseResponse>>

Init ==
  /\ pc = [r \in Requests |-> "idle"]
  /\ authResponse = [r \in Requests |-> NoResponse]
  /\ requestBody = [r \in Requests |-> NoBody]
  /\ toolConfig = [r \in Requests |-> NoConfig]
  /\ supabaseResponse = [r \in Requests |-> <<>>]
  /\ response = [r \in Requests |-> NoResponse]
  /\ escaped = [r \in Requests |-> FALSE]
  /\ log = [r \in Requests |-> <<>>]
  /\ done = [r \in Requests |-> {}]
  /\ failedAt = [r \in Requests |-> ""]
  /\ caught = [r \in Requests |-> NoError]
  /\ db = <<>>
  /\ credits = [e \in Emails |-> InitialCredits]
  /\ calls = [authed |-> 0, invoke |-> 0, upload |-> 0, reduce |-> 0]

\* ------------------------------------------------------ steps of the handler
\* The handler starts the awaited call `step`.
Call(r, step, next) ==
  /\ pc' = [pc EXCEPT ![r] = next]
  /\ log' = [log EXCEPT ![r] = Append(@, step)]

\* The awaited call `step` resolved.
Completed(r, step) == done' = [done EXCEPT ![r] = @ \cup {step}]

\* route.ts 81-91: the catch clause answers 500.
Catch(r, step, error) ==
  /\ pc' = [pc EXCEPT ![r] = "returned"]
  /\ response' = [response EXCEPT ![r] = ErrorResponse(error)]
  /\ failedAt' = [failedAt EXCEPT ![r] = step]
  /\ caught' = [caught EXCEPT ![r] = error]
  /\ UNCHANGED <<escaped, log>>

\* route.ts 26-28: POST is invoked and awaits authMiddleware(request).
Receive(r) ==
  /\ pc[r] = "idle"
  /\ Call(r, "authMiddleware", "auth")
  /\ UNCHANGED <<local, response, escaped, done, failedAt, caught, db, credits, calls>>

\* Variant of AuthReturn: the status of authResponse is not looked at.
AuthReturnUnchecked(r) ==
  /\ pc[r] = "auth"
  /\ \E a \in AuthResponses :
       /\ authResponse' = [authResponse EXCEPT ![r] = a]
       /\ Completed(r, "authMiddleware")
       /\ Call(r, "json", "json")
       /\ calls' = [calls EXCEPT !.authed = @ + 1]
  /\ UNCHANGED <<requestBody, toolConfig, supabaseResponse, response, escaped, failedAt,
                 caught, db, credits>>

\* route.ts 28-33: authMiddleware resolves; a 401 is returned as is,
\* otherwise the handler enters the try block and awaits request.json().
AuthReturn(r) ==
  /\ pc[r] = "auth"
  /\ \E a \in AuthResponses :
       /\ authResponse' = [authResponse EXCEPT ![r] = a]
       /\ Completed(r, "authMiddleware")
       /\ IF a.status = 401
            THEN /\ pc' = [pc EXCEPT ![r] = "returned"]
                 /\ response' = [response EXCEPT ![r] = a]
                 /\ UNCHANGED <<log, calls>>
            ELSE /\ Call(r, "json", "json")
                 /\ calls' = [calls EXCEPT !.authed = @ + 1]
                 /\ UNCHANGED response
  /\ UNCHANGED <<requestBody, toolConfig, supabaseResponse, escaped, failedAt, caught,
                 db, credits>>

\* route.ts 28: authMiddleware rejects.  The await is outside the try block,
\* so the promise POST returned rejects with the same error.
AuthThrow(r) ==
  /\ pc[r] = "auth"
  /\ pc' = [pc EXCEPT ![r] = "returned"]
  /\ escaped' = [escaped EXCEPT ![r] = TRUE]
  /\ failedAt' = [failedAt EXCEPT ![r] = "authMiddleware"]
  /\ UNCHANGED <<local, response, log, done, caught, db, credits, calls>>

\* route.ts 33-37: the body is parsed, toolPath is decoded (URIError goes to
\* the catch clause) and the import of toolConfig is awaited.
JsonReturn(r) ==
  /\ pc[r] = "json"
  /\ \E b \in Bodies :
       /\ requestBody' = [requestBody EXCEPT ![r] = b]
       /\ Completed(r, "json")
       /\ IF decodeURIComponent(b.toolPath) = "URIError"
            THEN Catch(r, "decodeURIComponent", [isError |-> TRUE, message |-> "URI malformed"])
            ELSE /\ Call(r, "importToolConfig", "importToolConfig")
                 /\ UNCHANGED <<response, escaped, failedAt, caught>>
  /\ UNCHANGED <<authResponse, toolConfig, supabaseResponse, db, credits, calls>>

\* An awaited call inside the try block rejects: route.ts 81-91.
Reject(r, at, step) ==
  /\ pc[r] = at
  /\ \E error \in Thrown : Catch(r, step, error)
  /\ UNCHANGED <<local, done, db, credits, calls>>

\* route.ts 33: request.json() rejects (the body is not JSON).
JsonThrow(r) == Reject(r, "json", "json")

\* route.ts 37-38: toolConfig is imported; the import of the schema is awaited.
ImportToolConfigReturn(r) ==
  /\ pc[r] = "importToolConfig"
  /\ LET toolPath == decodeURIComponent(requestBody[r].toolPath) IN
       /\ toolPath \in DOMAIN ToolConfigs
       /\ toolConfig' = [toolConfig EXCEPT ![r] = ToolConfigs[toolPath]]
  /\ Completed(r, "importToolConfig")
  /\ Call(r, "importSchema", "importSchema")
  /\ UNCHANGED <<authResponse, requestBody, supabaseResponse, response, escaped,
                 failedAt, caught, db, credits, calls>>

\* route.ts 37: the import rejects (no such module, or the module throws).
ImportToolConfigThrow(r) == Reject(r, "importToolConfig", "importToolConfig")

\* route.ts 38-39
ImportSchemaReturn(r) ==
  /\ pc[r] = "importSchema"
  /\ Completed(r, "importSchema")
  /\ Call(r, "importPrompt", "importPrompt")
  /\ UNCHANGED <<local, response, escaped, failedAt, caught, db, credits, calls>>

ImportSchemaThrow(r) == Reject(r, "importSchema", "importSchema")

\* Variant of ImportPromptReturn: the invoke is not awaited, so
\* uploadToSupabase is called while the model call is still pending.
ImportPromptReturnNoAwait(r) ==
  /\ pc[r] = "importPrompt"
  /\ Completed(r, "importPrompt")
  /\ pc' = [pc EXCEPT ![r] = "upload"]
  /\ log' = [log EXCEPT ![r] = @ \o <<"invoke", "uploadToSupabase">>]
  /\ calls' = [calls EXCEPT !.invoke = @ + 1, !.upload = @ + 1]
  /\ UNCHANGED <<local, response, escaped, failedAt, caught, db, credits>>

\* route.ts 39-58: the prompt module is imported; generatePrompt, the
\* ChatAnthropic constructor and withStructuredOutput run synchronously and
\* may throw; then the model is invoked and awaited.
ImportPromptReturn(r) ==
  /\ pc[r] = "importPrompt"
  /\ Completed(r, "importPrompt")
  /\ \/ /\ Call(r, "invoke", "invoke")
        /\ calls' = [calls EXCEPT !.invoke = @ + 1]
        /\ UNCHANGED <<response, escaped, failedAt, caught>>
     \/ /\ \E step \in {"generatePrompt", "ChatAnthropic"}, error \in Thrown :
             Catch(r, step, error)
        /\ UNCHANGED calls
  /\ UNCHANGED <<local, db, credits>>

ImportPromptThrow(r) == Reject(r, "importPrompt", "importPrompt")

InvokeThrow(r) == Reject(r, "invoke", "invoke")

\* Variant of InvokeReturn: the generation is stored by two calls of
\* uploadToSupabase instead of one.
InvokeReturnUploadsTwice(r) ==
  /\ pc[r] = "invoke"
  /\ Completed(r, "invoke")
  /\ pc' = [pc EXCEPT ![r] = "upload"]
  /\ log' = [log EXCEPT ![r] = @ \o <<"uploadToSupabase", "uploadToSupabase">>]
  /\ calls' = [calls EXCEPT !.upload = @ + 2]
  /\ UNCHANGED <<local, response, escaped, failedAt, caught, db, credits>>

\* route.ts 55-68: the model answered; uploadToSupabase is called and awaited.
InvokeReturn(r) ==
  /\ pc[r] = "invoke"
  /\ Completed(r, "invoke")
  /\ Call(r, "uploadToSupabase", "upload")
  /\ calls' = [calls EXCEPT !.upload = @ + 1]
  /\ UNCHANGED <<local, response, escaped, failedAt, caught, db, credits>>

\* The row uploadToSupabase inserts for request r: the table assigns the slug.
NewRow(r) ==
  [slug |-> Len(db) + 1, owner |-> r, toolPath |-> toolConfig[r].toolPath,
   model |-> toolConfig[r].aiModel]

\* What uploadToSupabase can resolve to: the rows it inserted, one or none.
UploadResults(r) == { <<NewRow(r)>>, <<>> }

\* Variant of Respond: the slug is taken from the newest row of the table
\* instead of from the rows this request's upload returned.
RespondNewest(r, rows) ==
  IF db' = <<>>
    THEN Catch(r, "slug", [isError |-> TRUE, message |-> "Cannot read properties of undefined"])
    ELSE /\ pc' = [pc EXCEPT ![r] = "returned"]
         /\ response' = [response EXCEPT ![r] = OkResponse(db'[Len(db')].slug)]
         /\ log' = [log EXCEPT ![r] = Append(@, "response200")]
         /\ UNCHANGED <<escaped, failedAt, caught>>

\* route.ts 75-80: the response is built from supabaseResponse[0].slug;
\* reading .slug of undefined throws a TypeError inside the try block.
Respond(r, rows) ==
  IF rows = <<>>
    THEN Catch(r, "slug", [isError |-> TRUE, message |-> "Cannot read properties of undefined"])
    ELSE /\ pc' = [pc EXCEPT ![r] = "returned"]
         /\ response' = [response EXCEPT ![r] = OkResponse(rows[1].slug)]
         /\ log' = [log EXCEPT ![r] = Append(@, "response200")]
         /\ UNCHANGED <<escaped, failedAt, caught>>

\* route.ts 63-80: uploadToSupabase resolves; with the paywall on,
\* reduceUserCredits is called and awaited, otherwise the handler answers.
UploadReturn(r) ==
  /\ pc[r] = "upload"
  /\ Completed(r, "uploadToSupabase")
  /\ \E rows \in UploadResults(r) :
       /\ supabaseResponse' = [supabaseResponse EXCEPT ![r] = rows]
       /\ db' = db \o rows
       /\ IF PaywallOn(toolConfig[r])
            THEN /\ Call(r, "reduceUserCredits", "reduce")
                 /\ calls' = [calls EXCEPT !.reduce = @ + 1]
                 /\ UNCHANGED <<response, escaped, failedAt, caught>>
            ELSE /\ Respond(r, rows)
                 /\ UNCHANGED calls
  /\ UNCHANGED <<authResponse, requestBody, toolConfig, credits>>

UploadThrow(r) == Reject(r, "upload", "uploadToSupabase")

\* reduceUserCredits(email, amount): the balance of email drops by amount.
reduceUserCredits(balances, email, amount) ==
  [balances EXCEPT ![email] = @ - amount]

\* route.ts 72-80: reduceUserCredits(requestBody.email, toolConfig.credits)
\* resolves and the handler answers.
ReduceReturn(r) ==
  /\ pc[r] = "reduce"
  /\ Completed(r, "reduceUserCredits")
  /\ credits' = reduceUserCredits(credits, requestBody[r].email, toolConfig[r].credits)
  /\ UNCHANGED <<local, db, calls>>
  /\ Respond(r, supabaseResponse[r])

ReduceThrow(r) == Reject(r, "reduce", "reduceUserCredits")

\* ============================================================== properties
Range(seq) == { seq[i] : i \in DOMAIN seq }

Occurrences(seq, x) == Cardinality({ i \in DOMAIN seq : seq[i] = x })

IsPrefix(a, b) == Len(a) <= Len(b) /\ \A i \in 1..Len(a) : a[i] = b[i]

\* The rows of the table that request r inserted.
RowsOf(r) == { i \in DOMAIN db : db[i].owner = r }

Returned(r) == pc[r] = "returned"

RECURSIVE SumCredits(_)
SumCredits(S) ==
  IF S = {} THEN 0
  ELSE LET r == CHOOSE x \in S : TRUE IN toolConfig[r].credits + SumCredits(S \ {r})

\* The total taken from user e by the reduceUserCredits calls that completed.
Charged(e) ==
  SumCredits({ r \in Requests :
                 "reduceUserCredits" \in done[r] /\ requestBody[r].email = e })

\* The order of the externally visible steps of one request.
StepOrder(paywalled) ==
  <<"authMiddleware", "importToolConfig", "importSchema", "importPrompt", "invoke",
    "uploadToSupabase">>
  \o (IF paywalled THEN <<"reduceUserCredits">> ELSE <<>>)
  \o <<"response200">>

VisibleSteps(r) == SelectSeq(log[r], LAMBDA s : s # "json")

\* C1: the steps of every request occur in the order authMiddleware, the
\* loading of toolConfig, schema and prompt, the model invoke,
\* uploadToSupabase, reduceUserCredits when the tool is paywalled, and the 200
\* response; a step is started only when every earlier step of the request
\* has completed successfully.
StepsInOrder ==
  \A r \in Requests :
    /\ IsPrefix(VisibleSteps(r), StepOrder(toolConfig[r].paywall = "true"))
    /\ \A i \in 1..(Len(log[r]) - 1) : log[r][i] \in done[r]

StepsInOrderWitness ==
  \E r \in Requests :
    /\ response[r].status = 200
    /\ VisibleSteps(r) = StepOrder(TRUE)
    /\ \E q \in Requests : response[q].status = 200 /\ VisibleSteps(q) = StepOrder(FALSE)

\* C2: when authMiddleware answers 401, POST returns that very response and
\* the request does nothing else: the body is not read, no tool
\* configuration is loaded, the model is not invoked, no row is inserted and
\* no credits are reduced.
UnauthorizedStops ==
  \A r \in Requests :
    authResponse[r].status = 401 =>
      /\ Returned(r)
      /\ response[r] = authResponse[r]
      /\ log[r] = <<"authMiddleware">>
      /\ requestBody[r] = NoBody
      /\ toolConfig[r] = NoConfig
      /\ RowsOf(r) = {}
      /\ "reduceUserCredits" \notin done[r]

UnauthorizedStopsWitness ==
  \E r \in Requests :
    /\ authResponse[r].status = 401
    /\ Returned(r)
    /\ \E q \in Requests : response[q].status = 200 /\ "reduceUserCredits" \in done[q]

\* C3: reduceUserCredits is called in a request exactly when the request got
\* past uploadToSupabase and toolConfig.paywall is the boolean true; every
\* balance is the initial balance minus toolConfig.credits for each completed
\* call, taken from the email of that request's body; a request for a tool
\* whose paywall is not true leaves every balance alone.
PaywallGatesCredits ==
  /\ \A r \in Requests :
       /\ ("reduceUserCredits" \in Range(log[r]))
            <=> ("uploadToSupabase" \in done[r] /\ toolConfig[r].paywall = "true")
       /\ toolConfig[r].paywall # "true" => "reduceUserCredits" \notin done[r]
  /\ \A e \in Emails : credits[e] = InitialCredits - Charged(e)

PaywallGatesCreditsWitness ==
  \E r, q \in Requests :
    /\ "reduceUserCredits" \in done[r]
    /\ requestBody[r].email = "b@x.io"
    /\ credits["b@x.io"] = InitialCredits - toolConfig[r].credits
    /\ credits["a@x.io"] = InitialCredits
    /\ toolConfig[q].paywall = "truthy"
    /\ response[q].status = 200

\* The steps inside the try block whose failure C4 names.
TrySteps ==
  {"json", "decodeURIComponent", "importToolConfig", "importSchema", "importPrompt",
   "generatePrompt", "invoke", "uploadToSupabase", "reduceUserCredits", "slug"}

\* C4: a failure thrown by a step inside the try block is answered with
\* status 500, a body whose status is "Error" and whose message is the
\* error's message, or "An unknown error occurred" when the thrown value is
\* not an Error; such a request is never answered 200.
FailureIs500 ==
  \A r \in Requests :
    failedAt[r] \in TrySteps =>
      /\ Returned(r)
      /\ ~escaped[r]
      /\ response[r].status = 500
      /\ response[r].status # 200
      /\ response[r].body = "Error"
      /\ response[r].message =
           (IF caught[r].isError THEN caught[r].message ELSE "An unknown error occurred")

FailureIs500Witness ==
  \E r, q \in Requests :
    /\ failedAt[r] = "slug" /\ caught[r].isError /\ response[r].status = 500
    /\ failedAt[q] = "invoke" /\ ~caught[q].isError
    /\ response[q].message = "An unknown error occurred"

\* C5: a request calls the model at most once, inserts at most one row and
\* reduces credits at most once; the numbers of model calls, of inserted rows
\* and of credit decrements never exceed the number of requests that passed
\* authentication.
AtMostOncePerRequest ==
  /\ \A r \in Requests :
       /\ Occurrences(log[r], "invoke") <= 1
       /\ Occurrences(log[r], "uploadToSupabase") <= 1
       /\ Occurrences(log[r], "reduceUserCredits") <= 1
       /\ Cardinality(RowsOf(r)) <= 1
  /\ calls.invoke <= calls.authed
  /\ calls.upload <= calls.authed
  /\ calls.reduce <= calls.authed
  /\ Len(db) <= calls.authed
  /\ Cardinality({ r \in Requests : "reduceUserCredits" \in done[r] }) <= calls.authed

AtMostOncePerRequestWitness ==
  /\ \A r \in Requests : Returned(r)
  /\ calls.authed >= 2
  /\ calls.invoke = calls.authed
  /\ Len(db) = calls.authed
  /\ calls.reduce >= 1

\* C6: a 200 response is returned only after the request's uploadToSupabase
\* completed successfully, and it carries the slug of the first row that
\* call returned, a row this request inserted.
OkCarriesOwnSlug ==
  \A r \in Requests :
    response[r].status = 200 =>
      /\ "uploadToSupabase" \in done[r]
      /\ supabaseResponse[r] # <<>>
      /\ response[r].slug = supabaseResponse[r][1].slug
      /\ supabaseResponse[r][1].owner = r
      /\ \E i \in RowsOf(r) : db[i] = supabaseResponse[r][1]

OkCarriesOwnSlugWitness ==
  \E r, q \in Requests :
    /\ response[r].status = 200 /\ response[q].status = 200
    /\ response[r].slug = 1 /\ response[q].slug = 2
    /\ r > q

\* C7: if the model invoke or any step before it fails, uploadToSupabase and
\* reduceUserCredits are not called, the table holds no row of the request,
\* and the response is 500.
EarlyFailureIs500 ==
  \A r \in Requests :
    failedAt[r] \in {"authMiddleware", "json", "decodeURIComponent", "importToolConfig",
                     "importSchema", "importPrompt", "generatePrompt", "ChatAnthropic",
                     "invoke"} =>
      /\ "uploadToSupabase" \notin Range(log[r])
      /\ "reduceUserCredits" \notin Range(log[r])
      /\ RowsOf(r) = {}
      /\ response[r].status = 500

\* C8: a finished invocation of POST has produced a response, which is the
\* 401 of authMiddleware, a 200 with a slug or a 500 error body; no failure
\* of an external call leaves the handler as an exception.
AlwaysAnswers ==
  \A r \in Requests :
    Returned(r) =>
      /\ ~escaped[r]
      /\ \/ response[r].status = 401 /\ response[r] = authResponse[r]
         \/ response[r].status = 200 /\ response[r].slug # 0
         \/ response[r].status = 500 /\ response[r].body = "Error"

StoredRowIsPaid ==
  \A r \in Requests :
    (Returned(r) /\ toolConfig[r].paywall = "true" /\ RowsOf(r) # {})
      => "reduceUserCredits" \in done[r]

Next ==
  \E r \in Requests :
    \/ Receive(r)
    \/ AuthReturn(r)
    \/ AuthThrow(r)
    \/ JsonReturn(r)
    \/ JsonThrow(r)
    \/ ImportToolConfigReturn(r)
    \/ ImportToolConfigThrow(r)
    \/ ImportSchemaReturn(r)
    \/ ImportSchemaThrow(r)
    \/ ImportPromptReturn(r)
    \/ ImportPromptThrow(r)
    \/ InvokeReturn(r)
    \/ InvokeThrow(r)
    \/ UploadReturn(r)
    \/ UploadThrow(r)
    \/ ReduceReturn(r)
    \/ ReduceThrow(r)

Spec == Init /\ [][Next]_vars
====
